---- MODULE Spec2Model ----
(***************************************************************************)
(* A model of the batched drawing pipeline of egaku2d_core:                *)
(*   src/egaku2d_core/src/lib.rs            SimpleCanvas, uniform builders *)
(*   src/very_simple_2d_core/src/sprite_program.rs   program: set_viewport,*)
(*                                          set_buffer_and_draw            *)
(* The graphics API is modelled as a small state machine (gl) driven by    *)
(* the sequence of calls each operation issues; every call is followed by  *)
(* gl_ok!(), so a call that reports an error aborts the operation there.   *)
(* f32 values are modelled as exact rationals <<numerator, denominator>>.  *)
(*                                                                         *)
(* lib.rs calls set_viewport and set_buffer_and_draw on both programs; the *)
(* circle program's file is not among the sources, and both programs are   *)
(* modelled by the operations of sprite_program.rs.  The vertex buffer     *)
(* (vbo::GrowableBuffer) and the session types (shapes, sprite) are not    *)
(* among the sources either and are modelled from the specification.       *)
(***************************************************************************)
EXTENDS Integers, Sequences, FiniteSets, TLC

\* ------------------------------------------------------------------ bounds
\* most vertices pushed into one session
MaxLen == 2
\* most session objects the model can hold alive at once
MaxSessions == 2
\* most terminal calls made on one uniform builder
MaxDraws == 2

\* ------------------------------------------------------------- rationals
Abs(n) == IF n < 0 THEN -n ELSE n

RECURSIVE GCD(_, _)
GCD(a, b) == IF b = 0 THEN a ELSE GCD(b, a % b)

\* the rational n/d in lowest terms with a positive denominator
Rat(n, d) ==
    LET g == GCD(Abs(n), Abs(d))
        s == IF d < 0 THEN -1 ELSE 1
    IN  <<(s * n) \div g, (s * d) \div g>>

RatInt(n) == <<n, 1>>
RatMul(a, b) == Rat(a[1] * b[1], a[2] * b[2])
RatDiv(a, b) == Rat(a[1] * b[2], a[2] * b[1])
RatAdd(a, b) == Rat(a[1] * b[2] + b[1] * a[2], a[2] * b[2])
RatNeg(a) == <<-a[1], a[2]>>
RatPos(a) == a[1] > 0

\* ------------------------------------------------------------ inputs
\* axgeom::FixedAspectVec2: an aspect ratio (width : height) and a pixel width
WindowDims == { [ratio |-> <<800, 600>>, width |-> 800] }

\* logical widths handed to set_viewport (all > 0)
GameWidths == { <<100, 1>> }

\* the wider ranges the coordinate transform is checked over
AllWindowDims ==
    { [ratio |-> <<rw, rh>>, width |-> w] :
        rw \in {1, 3, 800}, rh \in {1, 2, 600}, w \in {1, 600, 800} }

AllGameWidths == { <<n, d>> : n \in {1, 3, 100}, d \in {1, 2} }

\* radii handed to lines(radius) and arrows(radius)
Radii == { <<1, 1>>, <<5, 2>> }

Colors == { "white", "red" }

Kinds == { "circles", "squares", "rects", "lines", "arrows", "sprites" }

Programs == { "circle_program", "sprite_program" }

BufferIds == { "circle_buffer", "sprite_buffer" }

\* the device buffer of a saved batch (a static buffer)
StaticBufferId == "static_buffer"

\* every buffer object of the graphics context
DeviceBuffers == BufferIds \cup { StaticBufferId }

\* ------------------------------------------------- coordinate transform
\* aspect.height_over_width()
height_over_width(ratio) == Rat(ratio[2], ratio[1])

\* the 3x3 matrix built by set_viewport, as its three rows in memory order
\* (handed to UniformMatrix3fv with transpose = 0, i.e. as three columns)
\* (as ViewportMatrix, without the flip of the y axis)
ViewportMatrixNoFlip(window_dim, game_width) ==
    LET game_height == RatMul(height_over_width(window_dim.ratio), game_width)
        scalex == RatDiv(RatInt(2), game_width)
        scaley == RatDiv(RatInt(2), game_height)
    IN  << <<scalex, RatInt(0), RatInt(0)>>,
           <<RatInt(0), scaley, RatInt(0)>>,
           <<RatInt(-1), RatInt(1), RatInt(1)>> >>

\* (as ViewportMatrix, with the aspect ratio left out of scale_y)
ViewportMatrixSquare(window_dim, game_width) ==
    LET scalex == RatDiv(RatInt(2), game_width)
    IN  << <<scalex, RatInt(0), RatInt(0)>>,
           <<RatInt(0), RatNeg(scalex), RatInt(0)>>,
           <<RatInt(-1), RatInt(1), RatInt(1)>> >>

ViewportMatrix(window_dim, game_width) ==
    LET game_height == RatMul(height_over_width(window_dim.ratio), game_width)
        scalex == RatDiv(RatInt(2), game_width)
        scaley == RatDiv(RatInt(2), game_height)
        tx == RatInt(-1)
        ty == RatInt(1)
    IN  << <<scalex, RatInt(0), RatInt(0)>>,
           <<RatInt(0), RatNeg(scaley), RatInt(0)>>,
           <<tx, ty, RatInt(1)>> >>

\* PointMul(window_dim.width as f32 / game_width)
PointMulOf(window_dim, game_width) == RatDiv(RatInt(window_dim.width), game_width)

\* gl_Position = mmatrix * vec3(position, 1.0) in the vertex shader:
\* the device x and y of a logical point
ShaderPosition(matrix, p) ==
    << RatAdd(RatAdd(RatMul(matrix[1][1], p[1]), RatMul(matrix[2][1], p[2])), matrix[3][1]),
       RatAdd(RatAdd(RatMul(matrix[1][2], p[1]), RatMul(matrix[2][2], p[2])), matrix[3][2]) >>

\* --------------------------------------------------- the graphics API
\* a vertex pushed by the session that is open now is named by its place in
\* the push order; a vertex pushed by an earlier session is Stale; device
\* storage also holds cells nothing was uploaded to
Vertex(idx) == [age |-> "current", idx |-> idx]
Stale == [age |-> "stale", idx |-> 0]
Uninit == [age |-> "uninit", idx |-> 0]
DefaultAttrib == [age |-> "default", idx |-> 0]

\* a vertex of a saved batch, held by a static buffer
Saved(cells) == [i \in 1..Len(cells) |-> [age |-> "saved", idx |-> cells[i].idx]]

\* when a new session opens, the vertices of the session before it become stale
Aged(cells) ==
    [i \in 1..Len(cells) |-> IF cells[i].age = "current" THEN Stale ELSE cells[i]]

Call(name, arg) == [call |-> name, arg |-> arg]

Uninits(n) == [i \in 1..n |-> Uninit]

\* the vertices a DrawArrays(mode, first, count) fetches: the enabled attribute
\* array reads the buffer that was bound when VertexAttribPointer was called;
\* a disabled array yields the constant default attribute
DrawRead(g, first, count) ==
    IF g.attrib.enabled /\ g.attrib.buffer # "0"
    THEN LET st == g.store[g.attrib.buffer]
         IN  [i \in 1..count |->
                IF first + i <= Len(st) THEN st[first + i] ELSE Uninit]
    ELSE [i \in 1..count |-> DefaultAttrib]

\* the effect of one successful graphics-API call on the context
GlApply(g, c) ==
    CASE c.call = "UseProgram" -> [g EXCEPT !.program = c.arg[1]]
      [] c.call = "UniformMatrix3fv" ->
            IF g.program \in Programs
            THEN [g EXCEPT !.matrix[g.program] = c.arg[1]]
            ELSE g
      [] c.call = "BindBuffer" -> [g EXCEPT !.array_buffer = c.arg[1]]
      [] c.call = "EnableVertexAttribArray" -> [g EXCEPT !.attrib.enabled = TRUE]
      [] c.call = "VertexAttribPointer" ->
            [g EXCEPT !.attrib.buffer = g.array_buffer]
      [] c.call = "BufferData" ->
            IF g.array_buffer \in DeviceBuffers
            THEN [g EXCEPT !.store[g.array_buffer] = Uninits(c.arg[1])]
            ELSE g
      [] c.call = "BufferSubData" ->
            IF g.array_buffer \in DeviceBuffers
            THEN LET old == g.store[g.array_buffer]
                     new == c.arg[1]
                 IN  [g EXCEPT !.store[g.array_buffer] =
                        [i \in 1..Len(old) |->
                            IF i <= Len(new) THEN new[i] ELSE old[i]]]
            ELSE g
      [] OTHER -> g

\* what the call-recording stub of the graphics capability notes for a call
Logged(g, c, failed) ==
    [call |-> c.call, arg |-> c.arg, program |-> g.program,
     array_buffer |-> g.array_buffer,
     cap |-> IF g.array_buffer \in DeviceBuffers THEN Len(g.store[g.array_buffer]) ELSE 0,
     read |-> IF c.call = "DrawArrays" THEN DrawRead(g, c.arg[2], c.arg[3]) ELSE <<>>,
     err |-> failed]

\* gl_ok!(): assert_eq!(gl::GetError(), gl::NO_ERROR) after every call.
\* Run the calls in order; the call numbered failAt reports an error (it is
\* ignored by the API), the assertion panics and nothing after it is issued.
\* failAt = 0: no call fails.
RECURSIVE Exec(_, _, _, _, _)
Exec(g, calls, failAt, i, log) ==
    IF i > Len(calls) THEN [gl |-> g, trace |-> log, ok |-> TRUE]
    ELSE IF i = failAt
         THEN [gl |-> g, trace |-> Append(log, Logged(g, calls[i], TRUE)), ok |-> FALSE]
         ELSE Exec(GlApply(g, calls[i]), calls, failAt, i + 1,
                   Append(log, Logged(g, calls[i], FALSE)))

\* (as gl_ok, the error ignored: the calls after the failing one are issued)
gl_no_abort(g, calls, failAt) ==
    LET a == Exec(g, calls, failAt, 1, <<>>)
    IN  IF a.ok THEN a ELSE Exec(a.gl, calls, 0, failAt + 1, a.trace)

gl_ok(g, calls, failAt) == Exec(g, calls, failAt, 1, <<>>)

IsDraw(e) == e.call = "DrawArrays"
IsUpload(e) == e.call \in {"BufferData", "BufferSubData"}

\* the entries of a trace that satisfy a test, in order
RECURSIVE Draws(_)
Draws(log) ==
    IF log = <<>> THEN <<>>
    ELSE IF IsDraw(Head(log)) THEN <<Head(log)>> \o Draws(Tail(log))
         ELSE Draws(Tail(log))

RECURSIVE Uploads(_)
Uploads(log) ==
    IF log = <<>> THEN <<>>
    ELSE IF IsUpload(Head(log)) THEN <<Head(log)>> \o Uploads(Tail(log))
         ELSE Uploads(Tail(log))

\* ------------------------------------------------------------ programs
\* SpriteProgram::set_viewport: the calls it issues
set_viewport_calls(program, window_dim, game_width) ==
    << Call("UseProgram", <<program>>),
       Call("UniformMatrix3fv", <<ViewportMatrix(window_dim, game_width)>>) >>

\* (as set_buffer_and_draw, without the unbind that ends it)
set_buffer_and_draw_left_bound(program, point_size, col, square, buffer_id, mode, length) ==
    << Call("BindBuffer", <<buffer_id>>),
       Call("DrawArrays", <<mode, 0, 1>>),
       Call("BindBuffer", <<"0">>),
       Call("UseProgram", <<program>>),
       Call("Uniform1f", <<point_size>>),
       Call("Uniform4fv", <<col>>),
       Call("Uniform1i", <<square>>),
       Call("BindBuffer", <<buffer_id>>),
       Call("EnableVertexAttribArray", <<"pos_attr">>),
       Call("VertexAttribPointer", <<"pos_attr">>),
       Call("DrawArrays", <<mode, 0, length>>) >>

\* (as set_buffer_and_draw, the batched draw drawing one vertex)
set_buffer_and_draw_one(program, point_size, col, square, buffer_id, mode, length) ==
    << Call("BindBuffer", <<buffer_id>>),
       Call("DrawArrays", <<mode, 0, 1>>),
       Call("BindBuffer", <<"0">>),
       Call("UseProgram", <<program>>),
       Call("Uniform1f", <<point_size>>),
       Call("Uniform4fv", <<col>>),
       Call("Uniform1i", <<square>>),
       Call("BindBuffer", <<buffer_id>>),
       Call("EnableVertexAttribArray", <<"pos_attr">>),
       Call("VertexAttribPointer", <<"pos_attr">>),
       Call("DrawArrays", <<mode, 0, 1>>),
       Call("BindBuffer", <<"0">>) >>

\* SpriteProgram::set_buffer_and_draw: the calls it issues
set_buffer_and_draw(program, point_size, col, square, buffer_id, mode, length) ==
    << Call("BindBuffer", <<buffer_id>>),
       Call("DrawArrays", <<mode, 0, 1>>),
       Call("BindBuffer", <<"0">>),
       Call("UseProgram", <<program>>),
       Call("Uniform1f", <<point_size>>),
       Call("Uniform4fv", <<col>>),
       Call("Uniform1i", <<square>>),
       Call("BindBuffer", <<buffer_id>>),
       Call("EnableVertexAttribArray", <<"pos_attr">>),
       Call("VertexAttribPointer", <<"pos_attr">>),
       Call("DrawArrays", <<mode, 0, length>>),
       Call("BindBuffer", <<"0">>) >>

\* ------------------------------------------------------ GrowableBuffer
\* device capacity after a reallocation that must hold len elements:
\* the capacity is doubled until it fits
RECURSIVE GrowCapacity(_, _)
GrowCapacity(cap, len) ==
    IF cap >= len THEN cap
    ELSE GrowCapacity(IF cap = 0 THEN 1 ELSE 2 * cap, len)

\* clear(): length reset to 0, host staging emptied, device storage untouched
clear(staging) == <<>>

\* append(vertex): pushes to host staging, no device I/O
append(staging, v) == Append(staging, v)

\* sync(): reallocate when the staging length exceeds the device capacity,
\* then upload the staging contents
update_always_realloc(id, staging, cap) ==
    << Call("BindBuffer", <<id>>),
       Call("BufferData", <<Len(staging)>>),
       Call("BufferSubData", <<staging>>),
       Call("BindBuffer", <<"0">>) >>

update(id, staging, cap) ==
    << Call("BindBuffer", <<id>>) >>
    \o (IF Len(staging) > cap
        THEN << Call("BufferData", <<GrowCapacity(cap, Len(staging))>>) >>
        ELSE << >>)
    \o << Call("BufferSubData", <<staging>>),
          Call("BindBuffer", <<"0">>) >>

\* get_info(): the buffer's id and its length
get_info(id, staging) == [id |-> id, length |-> Len(staging)]

\* ---------------------------------------------------------------- state
VARIABLES
    gl,             \* the graphics context: bound program and buffer, the programs'
                    \* matrix uniforms, the attribute array, device storage
    circle_buffer,  \* host staging of SimpleCanvas.circle_buffer
    sprite_buffer,  \* host staging of SimpleCanvas.sprite_buffer
    point_mul,      \* SimpleCanvas.point_mul
    color,          \* SimpleCanvas.color, the default color
    sessions,       \* the session objects created so far, by number
    panicked,       \* a gl_ok!() assertion failed
    lastOp,         \* the operation called last
    trace,          \* the graphics-API calls the last operation issued
    gl_count,       \* uploads and draw calls issued on the live buffers since the
                    \* last session was opened
    view,           \* the arguments of the last set_viewport
    saved           \* the saved batch (a static buffer) and its uniform builder

vars == <<gl, circle_buffer, sprite_buffer, point_mul, color, sessions,
          panicked, lastOp, trace, gl_count, view, saved>>

SessionIds == 1..MaxSessions

ZeroCount == [uploads |-> 0, draws |-> 0]
NoRadius == <<0, 1>>
NoUn == [color |-> "white", point_size |-> NoRadius, square |-> 0, mode |-> "POINTS"]

NoSession ==
    [phase |-> "Unused", kind |-> "circles", radius |-> NoRadius,
     arg_radius |-> NoRadius, kk |-> NoRadius, un |-> NoUn,
     pushed |-> 0, calls |-> 0, draws |-> 0]

\* no batch was saved
NoSave ==
    [phase |-> "None", kind |-> "circles", length |-> 0, un |-> NoUn, draws |-> 0]

\* the session objects (and uniform builders) that are alive
Live == { s \in SessionIds : sessions[s].phase \in {"Session", "Uniforms"} }

BufferOf(kind) == IF kind = "sprites" THEN "sprite_buffer" ELSE "circle_buffer"
ProgramOf(kind) == IF kind = "sprites" THEN "sprite_program" ELSE "circle_program"
Staging(id) == IF id = "sprite_buffer" THEN sprite_buffer ELSE circle_buffer
capacity(id) == Len(gl.store[id])

\* primitive mode and shape flag of a session kind
ModeOf(kind) == IF kind \in {"circles", "squares", "sprites"} THEN "POINTS" ELSE "TRIANGLES"
SquareOf(kind) == IF kind = "squares" THEN 1 ELSE 0

Counted(log) ==
    [uploads |-> gl_count.uploads + Len(Uploads(log)),
     draws |-> gl_count.draws + Len(Draws(log))]

\* SimpleCanvas::new: both programs get the viewport of the window, with the
\* logical width equal to the pixel width
Init ==
    \E window_dim \in WindowDims :
        /\ gl = [program |-> "sprite_program",
                 array_buffer |-> "0",
                 matrix |-> [p \in Programs |->
                                ViewportMatrix(window_dim, RatInt(window_dim.width))],
                 attrib |-> [enabled |-> FALSE, buffer |-> "0"],
                 store |-> [b \in DeviceBuffers |-> <<>>]]
        /\ circle_buffer = <<>>
        /\ sprite_buffer = <<>>
        /\ point_mul = PointMulOf(window_dim, RatInt(window_dim.width))
        /\ color = "white"
        /\ sessions = [s \in SessionIds |-> NoSession]
        /\ panicked = FALSE
        /\ lastOp = "new"
        /\ trace = <<>>
        /\ gl_count = ZeroCount
        /\ view = [window_dim |-> window_dim, game_width |-> RatInt(window_dim.width)]
        /\ saved = NoSave

\* ------------------------------------------------------------ operations
\* most graphics-API calls one operation issues
MaxCalls == 16

\* &mut self: a session-opening call, set_viewport, set_default_color and
\* clear_color need exclusive access to the canvas, which no caller has while
\* a session object or a uniform builder (holding sys: &mut SimpleCanvas) is
\* alive
can_borrow_shared == TRUE

can_borrow_mut == Live = {} /\ saved.phase # "StaticUniforms"

\* the radius a line or arrow session holds: radius * kk
session_radius_unscaled(radius, kk) == radius

session_radius(radius, kk) == RatMul(radius, kk)

\* the graphics-API calls made when a session object is dropped: the sessions
\* implement no Drop, so none
session_drop_flush(id, staging, cap) == update(id, staging, cap)

session_drop(id, staging, cap) == << >>

\* the staging buffer a session-opening call leaves behind
open_keep(staging) == staging

open_buffer(staging) == clear(staging)

\* sprites(), circles(), squares(), rects(), arrows(radius), lines(radius).
\* Aged only renames the vertices of the session before as stale, in host
\* staging and in device storage alike; no byte of either changes by it.
Open(kind, radius) ==
    /\ ~panicked
    /\ can_borrow_mut
    /\ \E s \in SessionIds \ Live :
        /\ \A t \in SessionIds \ Live : s <= t
        /\ sessions' = [sessions EXCEPT ![s] =
              [NoSession EXCEPT
                 !.phase = "Session",
                 !.kind = kind,
                 !.radius = IF kind \in {"lines", "arrows"}
                            THEN session_radius(radius, point_mul) ELSE NoRadius,
                 !.arg_radius = IF kind \in {"lines", "arrows"} THEN radius ELSE NoRadius,
                 !.kk = IF kind \in {"lines", "arrows"} THEN point_mul ELSE NoRadius]]
    /\ IF kind = "sprites"
       THEN /\ sprite_buffer' = open_buffer(Aged(sprite_buffer))
            /\ circle_buffer' = Aged(circle_buffer)
       ELSE /\ circle_buffer' = open_buffer(Aged(circle_buffer))
            /\ sprite_buffer' = Aged(sprite_buffer)
    /\ gl' = [gl EXCEPT !.store = [b \in DeviceBuffers |-> Aged(gl.store[b])]]
    /\ lastOp' = kind
    /\ trace' = << >>
    /\ gl_count' = ZeroCount
    /\ UNCHANGED <<point_mul, color, panicked, view, saved>>

\* a shape push on an open session: one vertex appended to the staging buffer
Push(s) ==
    /\ ~panicked
    /\ sessions[s].phase = "Session"
    /\ LET id == BufferOf(sessions[s].kind)
           v == Vertex(sessions[s].pushed + 1)
       IN  /\ Len(Staging(id)) < MaxLen
           /\ IF id = "sprite_buffer"
              THEN /\ sprite_buffer' = append(sprite_buffer, v)
                   /\ UNCHANGED circle_buffer
              ELSE /\ circle_buffer' = append(circle_buffer, v)
                   /\ UNCHANGED sprite_buffer
    /\ sessions' = [sessions EXCEPT ![s].pushed = @ + 1]
    /\ lastOp' = "add"
    /\ trace' = << >>
    /\ UNCHANGED <<gl, point_mul, color, panicked, gl_count, view, saved>>

\* the uniform builder of a session: Uniforms / SpriteUniforms {sys, un}
MakeUniforms(s) ==
    /\ ~panicked
    /\ sessions[s].phase = "Session"
    /\ sessions' = [sessions EXCEPT
          ![s].phase = "Uniforms",
          ![s].un = [color |-> color,
                     point_size |-> IF sessions[s].kind \in {"lines", "arrows"}
                                    THEN sessions[s].radius
                                    ELSE point_mul,
                     square |-> SquareOf(sessions[s].kind),
                     mode |-> ModeOf(sessions[s].kind)]]
    /\ lastOp' = "uniforms"
    /\ trace' = << >>
    /\ UNCHANGED <<gl, circle_buffer, sprite_buffer, point_mul, color, panicked,
                   gl_count, view, saved>>

\* (as with_color, the color not stored)
with_color_ignored(un, c) == un

\* with_color(&mut self, color): self.un.color = color
with_color(un, c) == [un EXCEPT !.color = c]

\* Uniforms::with_color, SpriteUniforms::with_color
WithColor(s, c) ==
    /\ ~panicked
    /\ sessions[s].phase = "Uniforms"
    /\ sessions' = [sessions EXCEPT ![s].un = with_color(@, c)]
    /\ lastOp' = "with_color"
    /\ trace' = << >>
    /\ UNCHANGED <<gl, circle_buffer, sprite_buffer, point_mul, color, panicked,
                   gl_count, view, saved>>

\* (as send_and_draw, without the buffer update)
send_and_draw_no_update(kind, un, staging, cap) ==
    LET id == BufferOf(kind)
        info == get_info(id, staging)
    IN  set_buffer_and_draw(ProgramOf(kind), un.point_size, un.color, un.square,
                            info.id, un.mode, info.length)

\* (as send_and_draw, the draw before the buffer update)
send_and_draw_draw_first(kind, un, staging, cap) ==
    LET id == BufferOf(kind)
        info == get_info(id, staging)
    IN  set_buffer_and_draw(ProgramOf(kind), un.point_size, un.color, un.square,
                            info.id, un.mode, info.length)
        \o update(id, staging, cap)

\* Uniforms::send_and_draw(&mut self), SpriteUniforms::send_and_draw(&mut self):
\* the calls of buffer.update() followed by those of set_buffer_and_draw
send_and_draw(kind, un, staging, cap) ==
    LET id == BufferOf(kind)
        info == get_info(id, staging)
    IN  update(id, staging, cap)
        \o set_buffer_and_draw(ProgramOf(kind), un.point_size, un.color, un.square,
                               info.id, un.mode, info.length)

SendAndDraw(s, failAt) ==
    /\ ~panicked
    /\ sessions[s].phase = "Uniforms"
    /\ sessions[s].calls < MaxDraws
    /\ LET id == BufferOf(sessions[s].kind)
           calls == send_and_draw(sessions[s].kind, sessions[s].un,
                                  Staging(id), capacity(id))
           r == gl_ok(gl, calls, failAt)
       IN  /\ failAt <= Len(calls)
           /\ gl' = r.gl
           /\ trace' = r.trace
           /\ panicked' = ~r.ok
           /\ gl_count' = Counted(r.trace)
           /\ sessions' = [sessions EXCEPT
                 ![s].calls = @ + 1,
                 ![s].draws = IF r.ok THEN @ + 1 ELSE @]
    /\ lastOp' = "send_and_draw"
    /\ UNCHANGED <<circle_buffer, sprite_buffer, point_mul, color, view, saved>>

\* a session object or its uniform builder goes out of scope
Drop(s, failAt) ==
    /\ ~panicked
    /\ s \in Live
    /\ LET id == BufferOf(sessions[s].kind)
           calls == session_drop(id, Staging(id), capacity(id))
           r == gl_ok(gl, calls, failAt)
       IN  /\ failAt <= Len(calls)
           /\ gl' = r.gl
           /\ trace' = r.trace
           /\ panicked' = ~r.ok
           /\ gl_count' = Counted(r.trace)
           /\ sessions' = [sessions EXCEPT ![s] =
                 [NoSession EXCEPT
                    !.phase = "Dropped",
                    !.calls = sessions[s].calls,
                    !.draws = sessions[s].draws]]
    /\ lastOp' = "drop"
    /\ UNCHANGED <<circle_buffer, sprite_buffer, point_mul, color, view, saved>>

\* a session's save(): a static buffer is created and filled with the
\* vertices the session has staged
static_buffer_new(staging) ==
    << Call("GenBuffers", <<StaticBufferId>>),
       Call("BindBuffer", <<StaticBufferId>>),
       Call("BufferData", <<Len(staging)>>),
       Call("BufferSubData", <<Saved(staging)>>),
       Call("BindBuffer", <<"0">>) >>

Save(s) ==
    /\ ~panicked
    /\ sessions[s].phase = "Session"
    /\ LET id == BufferOf(sessions[s].kind)
           r == gl_ok(gl, static_buffer_new(Staging(id)), 0)
       IN  /\ gl' = r.gl
           /\ trace' = r.trace
           /\ saved' = [NoSave EXCEPT
                 !.phase = "Save",
                 !.kind = sessions[s].kind,
                 !.length = Len(Staging(id))]
    /\ lastOp' = "save"
    /\ UNCHANGED <<circle_buffer, sprite_buffer, point_mul, color, sessions,
                   panicked, gl_count, view>>

\* the uniform builder of a saved batch: StaticUniforms / StaticSpriteUniforms
\* {sys, un, buffer}
MakeStaticUniforms ==
    /\ ~panicked
    /\ can_borrow_mut
    /\ saved.phase = "Save"
    /\ saved' = [saved EXCEPT
          !.phase = "StaticUniforms",
          !.un = [color |-> color,
                  point_size |-> point_mul,
                  square |-> SquareOf(saved.kind),
                  mode |-> ModeOf(saved.kind)]]
    /\ lastOp' = "static_uniforms"
    /\ trace' = << >>
    /\ UNCHANGED <<gl, circle_buffer, sprite_buffer, point_mul, color, sessions,
                   panicked, gl_count, view>>

\* StaticUniforms::with_color, StaticSpriteUniforms::with_color
StaticWithColor(c) ==
    /\ ~panicked
    /\ saved.phase = "StaticUniforms"
    /\ saved' = [saved EXCEPT !.un = with_color(@, c)]
    /\ lastOp' = "static_with_color"
    /\ trace' = << >>
    /\ UNCHANGED <<gl, circle_buffer, sprite_buffer, point_mul, color, sessions,
                   panicked, gl_count, view>>

\* (as static_draw, syncing and drawing the live buffer of the kind)
static_draw_live(kind, un, buffer) ==
    update(BufferOf(kind), << >>, 0)
    \o set_buffer_and_draw(ProgramOf(kind), un.point_size, un.color, un.square,
                           BufferOf(kind), un.mode, buffer.length)

\* StaticUniforms::draw(&mut self), StaticSpriteUniforms::draw(&mut self):
\* set_buffer_and_draw on self.buffer, with no buffer update
static_draw(kind, un, buffer) ==
    set_buffer_and_draw(ProgramOf(kind), un.point_size, un.color, un.square,
                        buffer.id, un.mode, buffer.length)

StaticDraw(failAt) ==
    /\ ~panicked
    /\ saved.phase = "StaticUniforms"
    /\ saved.draws < MaxDraws
    /\ LET calls == static_draw(saved.kind, saved.un,
                                [id |-> StaticBufferId, length |-> saved.length])
           r == gl_ok(gl, calls, failAt)
       IN  /\ failAt <= Len(calls)
           /\ gl' = r.gl
           /\ trace' = r.trace
           /\ panicked' = ~r.ok
    /\ saved' = [saved EXCEPT !.draws = @ + 1]
    /\ lastOp' = "draw"
    /\ UNCHANGED <<circle_buffer, sprite_buffer, point_mul, color, sessions,
                   gl_count, view>>

\* the uniform builder of a saved batch goes out of scope
StaticDrop ==
    /\ ~panicked
    /\ saved.phase = "StaticUniforms"
    /\ saved' = [saved EXCEPT !.phase = "Save", !.un = NoUn, !.draws = 0]
    /\ lastOp' = "static_drop"
    /\ trace' = << >>
    /\ UNCHANGED <<gl, circle_buffer, sprite_buffer, point_mul, color, sessions,
                   panicked, gl_count, view>>

\* SimpleCanvas::set_viewport: the circle program's set_viewport, whose result
\* becomes point_mul, then the sprite program's
canvas_set_viewport(window_dim, game_width) ==
    set_viewport_calls("circle_program", window_dim, game_width)
    \o set_viewport_calls("sprite_program", window_dim, game_width)

SetViewport(window_dim, game_width, failAt) ==
    /\ ~panicked
    /\ can_borrow_mut
    /\ LET calls == canvas_set_viewport(window_dim, game_width)
           first == Len(set_viewport_calls("circle_program", window_dim, game_width))
           r == gl_ok(gl, calls, failAt)
       IN  /\ failAt <= Len(calls)
           /\ gl' = r.gl
           /\ trace' = r.trace
           /\ panicked' = ~r.ok
           /\ gl_count' = Counted(r.trace)
           /\ point_mul' = IF failAt \in 1..first
                           THEN point_mul
                           ELSE PointMulOf(window_dim, game_width)
    /\ view' = [window_dim |-> window_dim, game_width |-> game_width]
    /\ lastOp' = "set_viewport"
    /\ UNCHANGED <<circle_buffer, sprite_buffer, color, sessions, saved>>

\* SimpleCanvas::set_default_color
SetDefaultColor(c) ==
    /\ ~panicked
    /\ can_borrow_mut
    /\ color' = c
    /\ lastOp' = "set_default_color"
    /\ trace' = << >>
    /\ UNCHANGED <<gl, circle_buffer, sprite_buffer, point_mul, sessions, panicked,
                   gl_count, view, saved>>

\* SimpleCanvas::clear_color
clear_color(back_color) ==
    << Call("ClearColor", <<back_color>>),
       Call("Clear", <<"COLOR_BUFFER_BIT">>) >>

ClearColor(c, failAt) ==
    /\ ~panicked
    /\ can_borrow_mut
    /\ LET calls == clear_color(c)
           r == gl_ok(gl, calls, failAt)
       IN  /\ failAt <= Len(calls)
           /\ gl' = r.gl
           /\ trace' = r.trace
           /\ panicked' = ~r.ok
           /\ gl_count' = Counted(r.trace)
    /\ lastOp' = "clear_color"
    /\ UNCHANGED <<circle_buffer, sprite_buffer, point_mul, color, sessions, view, saved>>

\* GrowableBuffer::new: the device buffer is created
buffer_new(id) == << Call("GenBuffers", <<id>>) >>

\* SpriteProgram::new: the shaders are compiled and linked, the program is
\* made active and the uniform and attribute locations are looked up
program_new(program) ==
    << Call("compile_shader", <<"VS_SRC", "VERTEX_SHADER">>),
       Call("compile_shader", <<"FS_SRC", "FRAGMENT_SHADER">>),
       Call("link_program", <<program>>),
       Call("DeleteShader", <<"fs">>),
       Call("DeleteShader", <<"vs">>),
       Call("UseProgram", <<program>>),
       Call("GetUniformLocation", <<"square">>),
       Call("GetUniformLocation", <<"point_size">>),
       Call("GetUniformLocation", <<"mmatrix">>),
       Call("GetUniformLocation", <<"bcol">>),
       Call("GetAttribLocation", <<"position">>) >>

\* SimpleCanvas::new: the buffers, the programs, the viewport of both programs
\* with the logical width equal to the pixel width, then blending
canvas_new(window_dim) ==
    buffer_new("circle_buffer")
    \o buffer_new("sprite_buffer")
    \o program_new("circle_program")
    \o program_new("sprite_program")
    \o set_viewport_calls("circle_program", window_dim, RatInt(window_dim.width))
    \o set_viewport_calls("sprite_program", window_dim, RatInt(window_dim.width))
    \o << Call("Enable", <<"BLEND">>),
          Call("BlendFunc", <<"SRC_ALPHA", "ONE_MINUS_SRC_ALPHA">>) >>

New(window_dim, failAt) ==
    /\ ~panicked
    /\ lastOp = "none"
    /\ LET calls == canvas_new(window_dim)
           r == gl_ok(gl, calls, failAt)
       IN  /\ failAt <= Len(calls)
           /\ gl' = r.gl
           /\ trace' = r.trace
           /\ panicked' = ~r.ok
           /\ gl_count' = Counted(r.trace)
           /\ point_mul' = IF r.ok
                           THEN PointMulOf(window_dim, RatInt(window_dim.width))
                           ELSE point_mul
    /\ color' = "white"
    /\ view' = [window_dim |-> window_dim, game_width |-> RatInt(window_dim.width)]
    /\ lastOp' = "new"
    /\ UNCHANGED <<circle_buffer, sprite_buffer, sessions, saved>>

\* the calls of an operation that may report an error: none (every call
\* succeeds), or any one of them
NoFailure == {0}
AnyFailure == 0..MaxCalls

Step(Fails) ==
    \/ \E kind \in Kinds, radius \in Radii : Open(kind, radius)
    \/ \E s \in SessionIds : Push(s)
    \/ \E s \in SessionIds : MakeUniforms(s)
    \/ \E s \in SessionIds, c \in Colors : WithColor(s, c)
    \/ \E s \in SessionIds, failAt \in Fails : SendAndDraw(s, failAt)
    \/ \E s \in SessionIds : Drop(s, 0)
    \/ \E w \in WindowDims, g \in GameWidths, failAt \in Fails :
          SetViewport(w, g, failAt)

\* the runs in which every graphics-API call succeeds; a failed gl_ok!()
\* panics and ends the run, so these are all the states a run passes through
\* before it panics
Next == Step(NoFailure)

Spec == Init /\ [][Next]_vars

\* the runs in which any graphics-API call may report an error
NextAbort == Step(AnyFailure)

SpecAbort == Init /\ [][NextAbort]_vars

\* the session pipeline together with the canvas calls that draw no shapes
NextCanvas ==
    \/ Next
    \/ \E c \in Colors : SetDefaultColor(c)
    \/ \E c \in Colors, failAt \in AnyFailure : ClearColor(c, failAt)

SpecCanvas == Init /\ [][NextCanvas]_vars

\* the coordinate transform over a wider range of windows and logical widths
InitTransform ==
    \E window_dim \in AllWindowDims :
        /\ gl = [program |-> "sprite_program",
                 array_buffer |-> "0",
                 matrix |-> [p \in Programs |->
                                ViewportMatrix(window_dim, RatInt(window_dim.width))],
                 attrib |-> [enabled |-> FALSE, buffer |-> "0"],
                 store |-> [b \in DeviceBuffers |-> <<>>]]
        /\ circle_buffer = <<>>
        /\ sprite_buffer = <<>>
        /\ point_mul = PointMulOf(window_dim, RatInt(window_dim.width))
        /\ color = "white"
        /\ sessions = [s \in SessionIds |-> NoSession]
        /\ panicked = FALSE
        /\ lastOp = "new"
        /\ trace = <<>>
        /\ gl_count = ZeroCount
        /\ view = [window_dim |-> window_dim, game_width |-> RatInt(window_dim.width)]
        /\ saved = NoSave

NextTransform ==
    \E w \in AllWindowDims, g \in AllGameWidths : SetViewport(w, g, 0)

SpecTransform == InitTransform /\ [][NextTransform]_vars

\* new() followed by any sequence of set_viewport calls, any of whose
\* graphics-API calls may report an error
NextTransformAbort ==
    \E w \in AllWindowDims, g \in AllGameWidths, failAt \in AnyFailure :
        SetViewport(w, g, failAt)

SpecTransformAbort == InitTransform /\ [][NextTransformAbort]_vars

\* the session kinds whose batches are saved: one of each program
StaticKinds == { "squares", "sprites" }

\* sessions, saved batches and their static draws
NextStatic ==
    \/ \E kind \in StaticKinds, radius \in Radii : Open(kind, radius)
    \/ \E s \in SessionIds : Push(s)
    \/ \E s \in SessionIds : Save(s)
    \/ \E s \in SessionIds : MakeUniforms(s)
    \/ \E s \in SessionIds : SendAndDraw(s, 0)
    \/ \E s \in SessionIds : Drop(s, 0)
    \/ MakeStaticUniforms
    \/ \E c \in Colors : StaticWithColor(c)
    \/ StaticDraw(0)
    \/ StaticDrop

SpecStatic == Init /\ [][NextStatic]_vars

\* a mat3 uniform of a program nothing was uploaded to
ZeroMatrix ==
    << <<RatInt(0), RatInt(0), RatInt(0)>>,
       <<RatInt(0), RatInt(0), RatInt(0)>>,
       <<RatInt(0), RatInt(0), RatInt(0)>> >>

\* the graphics context before SimpleCanvas::new is called
InitNone ==
    /\ gl = [program |-> "0",
             array_buffer |-> "0",
             matrix |-> [p \in Programs |-> ZeroMatrix],
             attrib |-> [enabled |-> FALSE, buffer |-> "0"],
             store |-> [b \in DeviceBuffers |-> <<>>]]
    /\ circle_buffer = <<>>
    /\ sprite_buffer = <<>>
    /\ point_mul = NoRadius
    /\ color = "white"
    /\ sessions = [s \in SessionIds |-> NoSession]
    /\ panicked = FALSE
    /\ lastOp = "none"
    /\ trace = <<>>
    /\ gl_count = ZeroCount
    /\ view = [window_dim |-> [ratio |-> <<1, 1>>, width |-> 0], game_width |-> NoRadius]
    /\ saved = NoSave

\* new() and every operation after it, any of whose graphics-API calls may
\* report an error
NextFatal ==
    \/ \E w \in WindowDims : \E failAt \in 0..Len(canvas_new(w)) : New(w, failAt)
    \/ lastOp # "none" /\ NextAbort
    \/ lastOp # "none" /\ \E c \in Colors, failAt \in AnyFailure : ClearColor(c, failAt)

SpecFatal == InitNone /\ [][NextFatal]_vars

\* ================================================================ claims
TheLive == CHOOSE s \in SessionIds : s \in Live

\* a terminal call has just returned normally
Drawn == lastOp = "send_and_draw" /\ ~panicked /\ Live # {}

\* the vertices the session pushed, in push order
Pushes(s) == [i \in 1..sessions[s].pushed |-> Vertex(i)]

C2_DiscardNoDeviceIO ==
    /\ \A s \in SessionIds :
          (sessions[s].phase # "Unused" /\ sessions[s].calls = 0)
              => gl_count = ZeroCount
    /\ lastOp \in Kinds \cup {"add", "uniforms", "with_color", "drop"}
          => trace = << >>
    /\ lastOp \in Kinds => Staging(BufferOf(lastOp)) = << >>

C2_Witness ==
    /\ lastOp = "drop"
    /\ \E s \in SessionIds : sessions[s].phase = "Dropped" /\ sessions[s].calls = 0
    /\ Len(circle_buffer) >= 2
    /\ circle_buffer[1].age = "current"
    /\ gl_count = ZeroCount

\* C3 as stated: the terminal call takes effect at most once per session, so
\* no session uploads and draws its batch a second time.
C3_TerminalAtMostOnce ==
    \A s \in SessionIds : sessions[s].draws <= 1

\* C4: at most one drawing session (or uniform builder derived from it) is
\* alive against the canvas in any reachable state.
C4_OneSessionAtATime ==
    Cardinality(Live) <= 1

C4_Witness ==
    /\ Cardinality(Live) = 1
    /\ \E b \in BufferIds : \E i \in DOMAIN gl.store[b] : gl.store[b][i] = Stale

\* C5 as stated: the vertices uploaded and drawn at finalize are exactly the
\* vertices pushed during the current session, in push order, and no draw call
\* reads a vertex left in a buffer by an earlier session.
C5_NoStaleRead ==
    Drawn =>
        /\ \A i \in DOMAIN trace :
              trace[i].call = "BufferSubData" => trace[i].arg[1] = Pushes(TheLive)
        /\ Draws(trace)[Len(Draws(trace))].read = Pushes(TheLive)
        /\ \A i \in DOMAIN trace :
              \A j \in DOMAIN trace[i].read : trace[i].read[j] # Stale

\* C6: the radius a line or arrow session holds is the caller's radius times
\* the canvas's device_per_logical factor as it was when the session was
\* opened, and that is the point size the terminal call uploads.
C6_ScaleCapture ==
    \A s \in Live :
        sessions[s].kind \in {"lines", "arrows"} =>
            /\ sessions[s].radius = RatMul(sessions[s].arg_radius, sessions[s].kk)
            /\ sessions[s].kk = point_mul
            /\ Drawn =>
                  \A i \in DOMAIN trace :
                      trace[i].call = "Uniform1f" =>
                          trace[i].arg[1] = RatMul(sessions[s].arg_radius, sessions[s].kk)

C6_Witness ==
    /\ Drawn
    /\ sessions[TheLive].kind = "arrows"
    /\ sessions[TheLive].kk = <<8, 1>>
    /\ sessions[TheLive].arg_radius = <<5, 2>>
    /\ sessions[TheLive].radius = <<20, 1>>

\* C7 as stated: in every state reachable by new() and set_viewport calls, a
\* call aborted by a graphics-API error included, the filled-shape program and
\* the sprite program hold the same projection matrix.
C7_TransformConsistent ==
    gl.matrix["circle_program"] = gl.matrix["sprite_program"]

\* C8: after new() or a set_viewport that returned, scale_x = 2/logical_width
\* and scale_y = 2/(height_over_width * logical_width) are positive and
\* device_per_logical = pixel width / logical_width; a window of 800x600 with
\* logical width 100 gives logical height 75, scale_x 1/50, scale_y 2/75 and
\* device_per_logical 8.
C8_TransformValues ==
    ~panicked =>
        \A p \in Programs :
            LET m == gl.matrix[p]
                scalex == m[1][1]
                scaley == RatNeg(m[2][2])
                w == view.game_width
                how == height_over_width(view.window_dim.ratio)
            IN  /\ RatPos(scalex)
                /\ RatPos(scaley)
                /\ RatMul(scalex, w) = RatInt(2)
                /\ RatMul(scaley, RatMul(how, w)) = RatInt(2)
                /\ RatMul(point_mul, w) = RatInt(view.window_dim.width)
                /\ (view = [window_dim |-> [ratio |-> <<800, 600>>, width |-> 800],
                            game_width |-> <<100, 1>>])
                      => /\ RatDiv(RatInt(2), scaley) = <<75, 1>>
                         /\ scalex = <<1, 50>>
                         /\ scaley = <<2, 75>>
                         /\ point_mul = <<8, 1>>

C8_Witness ==
    /\ lastOp = "set_viewport"
    /\ ~panicked
    /\ view = [window_dim |-> [ratio |-> <<800, 600>>, width |-> 800],
               game_width |-> <<100, 1>>]
    /\ point_mul = <<8, 1>>
    /\ gl.matrix["sprite_program"][2][2] = <<-2, 75>>

\* C9: the uploaded matrix is diag(scale_x, -scale_y) with translation (-1, +1):
\* the shader maps the logical origin to device (-1, +1) and the logical point
\* (logical_width, logical_height) to device (+1, -1).
C9_Orientation ==
    ~panicked =>
        \A p \in Programs :
            LET m == gl.matrix[p]
                w == view.game_width
                h == RatMul(height_over_width(view.window_dim.ratio), w)
            IN  /\ ShaderPosition(m, <<RatInt(0), RatInt(0)>>) = <<RatInt(-1), RatInt(1)>>
                /\ ShaderPosition(m, <<w, h>>) = <<RatInt(1), RatInt(-1)>>
                /\ m[1][2] = RatInt(0) /\ m[1][3] = RatInt(0)
                /\ m[2][1] = RatInt(0) /\ m[2][3] = RatInt(0)
                /\ m[3] = <<RatInt(-1), RatInt(1), RatInt(1)>>
                /\ RatPos(m[1][1]) /\ RatPos(RatNeg(m[2][2]))

C9_Witness ==
    /\ lastOp = "set_viewport"
    /\ ~panicked
    /\ view.game_width = <<3, 2>>
    /\ view.window_dim.ratio = <<3, 2>>
    /\ ShaderPosition(gl.matrix["circle_program"], <<<<3, 2>>, <<1, 1>>>>)
          = <<RatInt(1), RatInt(-1)>>

\* C10: over any sequence of sessions on a buffer, a sync never lowers the
\* device capacity, the length is at most the capacity after every sync, and a
\* sync whose staging length is at most the capacity does not reallocate.
C10_BufferReuse ==
    Drawn =>
        LET id == BufferOf(sessions[TheLive].kind)
        IN  /\ Len(Staging(id)) <= capacity(id)
            /\ \A i \in DOMAIN trace :
                  trace[i].call = "BufferData" =>
                      /\ trace[i].arg[1] >= trace[i].cap
                      /\ Len(Staging(id)) > trace[i].cap
            /\ \E i \in DOMAIN trace : trace[i].call = "BufferSubData"

C10_Witness ==
    /\ Drawn
    /\ \A i \in DOMAIN trace : trace[i].call # "BufferData"
    /\ Len(circle_buffer) = 1
    /\ sessions[TheLive].kind = "rects"
    /\ capacity("circle_buffer") = 2
    /\ gl.store["circle_buffer"][2] = Stale

\* C11 as stated: before the batched draw, set_buffer_and_draw issues one
\* throwaway draw call that is zero-length, fetches no vertex and so renders
\* nothing, and is made before the new buffer is bound.
C11_ThrowawayZeroLength ==
    Drawn =>
        LET d == Draws(trace)
        IN  /\ Len(d) = 2
            /\ d[1].arg[3] = 0
            /\ d[1].read = << >>
            /\ d[1].array_buffer # BufferOf(sessions[TheLive].kind)

C13_SpriteUniformSet ==
    (Drawn /\ sessions[TheLive].kind = "sprites") =>
        /\ \A i \in DOMAIN trace : trace[i].call # "Uniform1i"
        /\ { trace[i].call : i \in { j \in DOMAIN trace : trace[j].program = "sprite_program" } }
              \cap { "Uniform1f", "Uniform4fv", "Uniform1i", "UniformMatrix3fv" }
              = { "Uniform1f", "Uniform4fv" }

\* C14: each send_and_draw that returns syncs the buffer exactly once, the
\* buffer being the one of the session's kind, and the sync is complete (its
\* upload made, the buffer unbound again) before any draw call is issued; a
\* push and with_color sync nothing.
C14_UploadThenDraw ==
    /\ Drawn =>
          LET id == BufferOf(sessions[TheLive].kind)
              syncs == { i \in DOMAIN trace : trace[i].call = "BufferSubData" }
          IN  /\ Cardinality(syncs) = 1
              /\ \A i \in DOMAIN trace :
                    IsUpload(trace[i]) => trace[i].array_buffer = id
              /\ \A i \in syncs :
                    /\ trace[i].arg[1] = Staging(id)
                    /\ trace[i + 1].call = "BindBuffer"
                    /\ trace[i + 1].arg = <<"0">>
                    /\ \A j \in DOMAIN trace : IsDraw(trace[j]) => i + 1 < j
    /\ lastOp \in {"add", "with_color"} => Uploads(trace) = << >>

C14_Witness ==
    /\ Drawn
    /\ sessions[TheLive].kind = "sprites"
    /\ Len(sprite_buffer) = 2
    /\ trace[2].call = "BufferData"
    /\ trace[3].call = "BufferSubData"
    /\ trace[3].array_buffer = "sprite_buffer"
    /\ Len(Draws(trace)) = 2

\* C15 as stated: within one set_buffer_and_draw every draw call, the
\* throwaway one included, is issued with the session's program active and
\* its buffer bound, after the program was made active, the uniforms were
\* uploaded and the vertex attribute layout was set.
C15_DrawStepOrder ==
    Drawn =>
        LET id == BufferOf(sessions[TheLive].kind)
            prog == ProgramOf(sessions[TheLive].kind)
            Before(i, name) == \E j \in 1..(i - 1) : trace[j].call = name
        IN  \A i \in DOMAIN trace :
                IsDraw(trace[i]) =>
                    /\ trace[i].program = prog
                    /\ trace[i].array_buffer = id
                    /\ Before(i, "UseProgram")
                    /\ Before(i, "Uniform1f")
                    /\ Before(i, "Uniform4fv")
                    /\ Before(i, "VertexAttribPointer")

\* a draw() of a static uniform builder has just returned normally
StaticDrawn == lastOp = "draw" /\ ~panicked

\* C16: StaticUniforms::draw and StaticSpriteUniforms::draw upload nothing,
\* bind only the static buffer they were built with and draw its saved
\* vertices in one batched draw; they leave the staging, the length and the
\* device storage of circle_buffer and sprite_buffer unchanged; send_and_draw
\* draws the live buffer of the session's kind.
C16_StaticDrawState ==
    /\ StaticDrawn =>
          LET d == Draws(trace)
          IN  /\ Uploads(trace) = << >>
              /\ \A i \in DOMAIN trace :
                    trace[i].call = "BindBuffer" => trace[i].arg[1] \in {StaticBufferId, "0"}
              /\ Len(d) = 2
              /\ d[2].array_buffer = StaticBufferId
              /\ d[2].arg = <<saved.un.mode, 0, saved.length>>
              /\ d[2].read = gl.store[StaticBufferId]
              /\ \A i \in DOMAIN d[2].read : d[2].read[i].age = "saved"
    /\ Drawn =>
          LET d == Draws(trace)
              id == BufferOf(sessions[TheLive].kind)
          IN  /\ d[Len(d)].array_buffer = id
              /\ d[Len(d)].arg[3] = Len(Staging(id))
              /\ d[Len(d)].read = Pushes(TheLive)

C16_StaticDrawStep ==
    lastOp' = "draw" =>
        /\ circle_buffer' = circle_buffer
        /\ sprite_buffer' = sprite_buffer
        /\ gl'.store = gl.store

\* C16: the state and the step property above, together
C16_StaticDraw == []C16_StaticDrawState /\ [][C16_StaticDrawStep]_vars

C16_Witness ==
    /\ StaticDrawn
    /\ saved.kind = "sprites"
    /\ saved.length = 2
    /\ Len(circle_buffer) = 1
    /\ Len(sprite_buffer) = 0
    /\ capacity("sprite_buffer") = 2
    /\ Draws(trace)[2].read = Saved(<<Vertex(1), Vertex(2)>>)

C17_ColorStep ==
    /\ \A s \in SessionIds, c \in Colors :
          WithColor(s, c) =>
              /\ sessions'[s] = [sessions[s] EXCEPT !.un.color = c]
              /\ \A t \in SessionIds \ {s} : sessions'[t] = sessions[t]
              /\ trace' = << >>
              /\ UNCHANGED <<gl, color, circle_buffer, sprite_buffer, point_mul, view>>
    /\ \A s \in SessionIds :
          (/\ sessions[s].phase = "Uniforms"
           /\ sessions'[s].phase = "Uniforms"
           /\ sessions'[s].un.color # sessions[s].un.color) => lastOp' = "with_color"
    /\ (lastOp' = "send_and_draw" /\ ~panicked') =>
          /\ \E i \in DOMAIN trace' : trace'[i].call = "Uniform4fv"
          /\ \A i \in DOMAIN trace' :
                trace'[i].call = "Uniform4fv" =>
                    trace'[i].arg = <<sessions[TheLive].un.color>>
    /\ lastOp' = "uniforms" =>
          \A s \in SessionIds :
              sessions'[s].phase = "Uniforms" => sessions'[s].un.color = color

\* C17: with_color(c) changes only the color held by that uniform builder, to
\* c: it issues no graphics-API call and leaves the canvas's default color,
\* both buffers and the transform unchanged; nothing else changes a builder's
\* color, and the color a terminal draw uploads is the one the builder holds,
\* that is the one given by the last with_color before it; the builder of a
\* session opened afterwards starts from the canvas's default color again.
C17_WithColorLocal == [][C17_ColorStep]_vars

C17_Witness ==
    /\ Drawn
    /\ color = "red"
    /\ sessions[TheLive].un.color = "white"
    /\ \E i \in DOMAIN trace :
          trace[i].call = "Uniform4fv" /\ trace[i].arg = <<"white">>

C18_OpenStep ==
    lastOp' \in Kinds =>
        /\ IF lastOp' = "sprites"
           THEN /\ sprite_buffer' = << >>
                /\ circle_buffer' = Aged(circle_buffer)
           ELSE /\ circle_buffer' = << >>
                /\ sprite_buffer' = Aged(sprite_buffer)
        /\ \A b \in BufferIds : gl'.store[b] = Aged(gl.store[b])
        /\ gl'.matrix = gl.matrix
        /\ UNCHANGED <<point_mul, color, view>>
        /\ trace' = << >>

\* C18: sprites() empties the staging of sprite_buffer and leaves that of
\* circle_buffer as it was; circles(), squares(), rects(), lines() and
\* arrows() empty the staging of circle_buffer and leave that of sprite_buffer
\* as it was; no session-opening call issues a graphics-API call or changes
\* device storage, the transform, the device_per_logical factor or the
\* default color.  (Aged renames the vertices of the session before and
\* changes no content.)
C18_OpenTouchesOwnBuffer == [][C18_OpenStep]_vars

C18_Witness ==
    /\ lastOp = "sprites"
    /\ sprite_buffer = << >>
    /\ Len(circle_buffer) = 2
    /\ capacity("sprite_buffer") = 2
    /\ gl.store["sprite_buffer"][1] = Stale
    /\ color = "red"

\* C19: whenever set_buffer_and_draw has returned normally (from send_and_draw
\* or from a static draw), its last call was the unbind and the array-buffer
\* binding of the context is 0; no operation between two draws leaves a
\* buffer bound either.
C19_NoBufferLeftBound ==
    /\ (lastOp \in {"send_and_draw", "draw"} /\ ~panicked) =>
          /\ trace # << >>
          /\ trace[Len(trace)].call = "BindBuffer"
          /\ trace[Len(trace)].arg = <<"0">>
          /\ gl.array_buffer = "0"
    /\ ~panicked => gl.array_buffer = "0"

C19_Witness ==
    /\ Drawn
    /\ gl.array_buffer = "0"
    /\ gl.attrib.buffer = "circle_buffer"
    /\ \E i \in DOMAIN trace :
          /\ IsDraw(trace[i])
          /\ trace[i].array_buffer = "circle_buffer"
          /\ trace[i].arg[3] = 2
    /\ saved.phase = "Save"

====
